---- MODULE Spec2Model ----
(***************************************************************************)
(* A model of multialign: the A* multiple sequence alignment of            *)
(* src/src/multialign.rs, its two metrics (src/src/multialign/metric/) and *)
(* the dispatcher on the number of sequences.                              *)
(*                                                                         *)
(* The specifications of the module:                                       *)
(*   Spec            the search of multialign_astar_with_identifier: root, *)
(*                   best-first expansion, backtrack and CIGAR string      *)
(*                   (FairSpec: run to its end; SpecNegative: with a cost  *)
(*                   table that has a negative cell; SpecExample: "ACGT"   *)
(*                   and "AGT" under the match metric; SpecOverflow: with  *)
(*                   cost tables whose sums leave the cost width);         *)
(*   SpecMetric      a metric object driven through reset, count, compute; *)
(*   SpecDispatch    multialign_astar's checks and dispatch on K;          *)
(*   SpecCigar       backtrack_cigar on the edges of any alignment;        *)
(*   SpecDuplicates  the duplicate id check of execute_with_alphabet       *)
(*                   (src/src/main.rs).                                    *)
(* Characters are their dense alphabet index 0..AlphabetSize-1; the gap is *)
(* index AlphabetSize, as in the metrics' character_counts.                *)
(***************************************************************************)
EXTENDS Integers, Sequences, FiniteSets

VARIABLES
    \* ---- Spec: the alignment call
    sequences,      \* the K input sequences (tuple of sequences of character indices)
    metric,         \* the metric handed to multialign_astar: [kind, sequence_amount, table]
    pc,             \* "start" | "search" | "found" | "done" | "failed"
    open_list,      \* the driver's open list: nodes waiting to be expanded
    closed_list,    \* the driver's closed list: the node each identifier was first expanded as
    outcome,        \* AStarResult of search(), or "Panic", or "None" before it ends
    cost,           \* the cost logged as "Alignment cost"
    cigar,          \* the string logged as "Alignment", one character per element
    \* ---- SpecMetric: one metric object
    m_metric,           \* [kind, sequence_amount, table]
    character_counts,   \* the metric's character_counts, index 0..AlphabetSize
    m_column,           \* the entries counted since the last reset, in call order
    m_result,           \* what the last compute_cost_increment returned, or NotComputed
    \* ---- SpecDispatch: multialign_astar on K sequences
    d_len,          \* sequences.len()
    d_bits,         \* usize::BITS of the build
    d_pc,           \* "entry" | "checked" | "returned"
    d_result,       \* "None" | "Err" | "Panic" | "Array" | "Vec"
    \* ---- SpecCigar: one call of backtrack_cigar
    c_sequences,    \* the sequences handed to backtrack_cigar
    c_edges,        \* the edges handed to backtrack_cigar, target first
    c_index,        \* the number of edges the loop over the edges has taken
    c_cigar,        \* cigar: the elements pushed so far
    c_string,       \* the string it returns, one character per element
    c_pc,           \* "idle" | "called" | "returned"
    \* ---- SpecDuplicates: execute_with_alphabet's check of the record ids
    record_ids,     \* the ids of the loaded records
    duplicate_ids,  \* what list_duplicates returned
    l_pc,           \* "idle" | "loaded" | "counted" | "sorted" | "listed" | "returned"
    l_result        \* "None" | "Err" | "Aligning"

searchVars == <<sequences, metric, pc, open_list, closed_list, outcome, cost, cigar>>
metricVars == <<m_metric, character_counts, m_column, m_result>>
dispatchVars == <<d_len, d_bits, d_pc, d_result>>
cigarVars == <<c_sequences, c_edges, c_index, c_cigar, c_string, c_pc>>
duplicateVars == <<record_ids, duplicate_ids, l_pc, l_result>>
vars == <<searchVars, metricVars, dispatchVars, cigarVars, duplicateVars>>

----------------------------------------------------------------------------
(* Bounds of the model. *)

\* The largest number of sequences of an alignment call of Spec.
MaxSeqs == 3
\* The largest total length of the sequences of an alignment call of Spec.
MaxTotalLen == 4
\* The largest number of offset tuples (search nodes) of an alignment call of Spec.
MaxLattice == 9
\* The largest number of count_character / count_gap calls between two resets in SpecMetric.
MaxColumn == 3
\* The largest sequence amount of SpecDispatch.
MaxSeqAmount == 66
\* The largest total length of the sequences of a backtrack_cigar call of SpecCigar.
MaxCigarTotal == 5
\* The largest number of records and the number of different ids of SpecDuplicates.
MaxRecords == 4
MaxIdValue == 3

----------------------------------------------------------------------------
(* The alphabet: the DNA alphabet. *)

AlphabetChars == <<"A", "C", "G", "T">>
AlphabetSize == Len(AlphabetChars)
Characters == 0 .. (AlphabetSize - 1)
\* The gap's slot in character_counts and in the cost table.
GapIndex == AlphabetSize
Kinds == 0 .. AlphabetSize

\* The characters the bounded inputs are drawn from (A and C), and the kinds
\* of their columns.
InputCharacters == {0, 1}
InputKinds == InputCharacters \cup {GapIndex}

\* Option<T>: None, Some(v).
None == <<>>
Some(v) == <<v>>
Unwrap(option) == option[1]

\* What a computation ends as: a value, an Err(..) return, or a panic (an
\* .unwrap() of a checked operation that overflowed).
Ok(v) == [tag |-> "Ok", value |-> v]
Err == [tag |-> "Err", value |-> 0]
Panic == [tag |-> "Panic", value |-> 0]

I16Max == 32767
I16Min == -32768
I32Max == 2147483647
I32Min == -2147483647 - 1

\* Whether a checked_* operation on i32 (on I16Cost) returns Some.
FitsI32(x) == I32Min <= x /\ x <= I32Max
FitsI16(x) == I16Min <= x /\ x <= I16Max

----------------------------------------------------------------------------
(* The metrics. *)

\* character_counts as the metrics' constructors make it: vec![0; SIZE + 1].
ZeroCounts == [k \in Kinds |-> 0]

\* ResetCharacterCounts that leaves the counts as they are.
ResetCharacterCountsKeeping(counts) == counts

\* reset_character_counts: character_counts.fill(0)
ResetCharacterCounts(counts) == [k \in DOMAIN counts |-> 0]

\* count_character
CountCharacter(counts, character) == [counts EXCEPT ![character] = @ + 1]

\* CountGap that counts nothing.
CountGapDropped(counts) == counts

\* count_gap
CountGap(counts) == [counts EXCEPT ![GapIndex] = @ + 1]

\* MatchCharacterScore without the halving: ordered instead of unordered pairs.
MatchCharacterScoreOrdered(character_count) ==
    IF character_count >= 2
    THEN IF FitsI32(character_count * (character_count - 1))
         THEN Ok(character_count * (character_count - 1))
         ELSE Panic
    ELSE Ok(0)

\* PairwiseMatchMetric::compute_cost_increment: one step of the fold, the
\* score of one slot of character_counts.
MatchCharacterScore(character_count) ==
    IF character_count >= 2
    THEN IF FitsI32(character_count * (character_count - 1))
         THEN Ok((character_count * (character_count - 1)) \div 2)
         ELSE Panic
    ELSE Ok(0)

\* PairwiseMatchMetric::compute_cost_increment: the fold over character_counts
\* from slot `index` on, `score` the accumulator.
RECURSIVE MatchScoreIncrement(_, _, _)
MatchScoreIncrement(counts, index, score) ==
    IF index > AlphabetSize THEN Ok(score)
    ELSE LET character_score == MatchCharacterScore(counts[index])
         IN  IF character_score.tag # "Ok" THEN Panic
             ELSE IF ~FitsI16(score + character_score.value) THEN Panic
             ELSE MatchScoreIncrement(counts, index + 1, score + character_score.value)

\* MatchComputeCostIncrement with max_score not halved: K(K-1) instead of K(K-1)/2.
MatchComputeCostIncrementOrderedMax(counts, sequence_amount) ==
    LET score_increment == MatchScoreIncrement(counts, 0, 0)
        max_score == sequence_amount * (sequence_amount - 1)
    IN  IF score_increment.tag # "Ok" THEN Panic
        ELSE IF ~FitsI32(sequence_amount * (sequence_amount - 1)) THEN Panic
        ELSE IF ~FitsI16(max_score - score_increment.value) THEN Panic
        ELSE Ok(max_score - score_increment.value)

\* PairwiseMatchMetric::compute_cost_increment
MatchComputeCostIncrement(counts, sequence_amount) ==
    LET score_increment == MatchScoreIncrement(counts, 0, 0)
        max_score == (sequence_amount * (sequence_amount - 1)) \div 2
    IN  IF score_increment.tag # "Ok" THEN Panic
        ELSE IF ~FitsI32(sequence_amount * (sequence_amount - 1)) THEN Panic
        ELSE IF ~FitsI16(max_score - score_increment.value) THEN Panic
        ELSE Ok(max_score - score_increment.value)

\* i32::checked_mul of a multiplicity (>= 0) and a table cell returns Some:
\* the exact product is inside the i32 range. Written with divisions, so that
\* the test itself stays inside the range.
MulFitsI32(multiplicity, base_cost) ==
    \/ multiplicity = 0
    \/ /\ base_cost <= I32Max \div multiplicity
       /\ base_cost >= -(I32Max \div multiplicity)
                          - (IF I32Max % multiplicity = multiplicity - 1 THEN 1 ELSE 0)

\* What `+=` of the cost type does when the sum leaves its 16 bits: the cost
\* type's AddAssign is not a checked_* call. An integer `+=` panics in a build
\* with overflow checks and wraps in one without; a saturating cost type
\* clamps.
OverflowOutcomes == {"panic", "wrap", "saturate"}

\* x wrapped into 16 bits, two's complement.
WrapI16(x) == ((x - I16Min) % 65536) + I16Min

\* x clamped into 16 bits.
SaturateI16(x) == IF x > I16Max THEN I16Max ELSE IF x < I16Min THEN I16Min ELSE x

\* The statement cost += Cost::from(Cost::CostType::from(product)) for the
\* 16-bit cost type and an i32 product, in a build where an overflow gives
\* `on_overflow`.
CostAddAssign(acc, product, on_overflow) ==
    IF FitsI16(product) /\ FitsI16(acc + product) THEN Ok(acc + product)
    ELSE IF on_overflow = "panic" THEN Panic
    ELSE IF on_overflow = "wrap" THEN Ok(WrapI16(acc + WrapI16(product)))
    ELSE Ok(SaturateI16(acc + SaturateI16(product)))

\* PairwiseCostTable::cost: the cell, or Err for a missing one.
TableCost(table, from, to) ==
    IF table[from][to] = None THEN Err ELSE Ok(Unwrap(table[from][to]))

\* Multiplicity that counts the unordered pairs of a kind with itself.
MultiplicityUnordered(counts, index, other_index) ==
    IF index = other_index
    THEN (counts[index] * (counts[index] - 1)) \div 2
    ELSE counts[index] * counts[other_index]

\* PairwiseCostMetric::compute_cost_increment: count * other_count, the
\* multiplicity of the pair of slots.
Multiplicity(counts, index, other_index) == counts[index] * counts[other_index]

\* PairwiseCostMetric::compute_cost_increment, the inner loop: `others` is what
\* is left of non_zero_character_counts, acc the cost so far.
RECURSIVE CostInner(_, _, _, _, _)
CostInner(counts, m, index, others, acc) ==
    IF others = <<>> THEN Ok(acc)
    ELSE LET other_index == Head(others)
             multiplicity == Multiplicity(counts, index, other_index)
             base_cost == TableCost(m.table, index, other_index)
         IN  IF ~FitsI32(multiplicity) THEN Panic
             ELSE IF base_cost.tag # "Ok" THEN Err
             ELSE IF ~MulFitsI32(multiplicity, base_cost.value) THEN Panic
             ELSE LET added == CostAddAssign(acc, multiplicity * base_cost.value,
                                             m.on_overflow)
                  IN  IF added.tag # "Ok" THEN Panic
                      ELSE CostInner(counts, m, index, Tail(others), added.value)

\* PairwiseCostMetric::compute_cost_increment, the outer loop from slot `index`
\* on: non_zero is non_zero_character_counts (the non-zero slots seen so far,
\* in insertion order), acc the cost so far.
RECURSIVE CostOuter(_, _, _, _, _)
CostOuter(counts, m, index, non_zero, acc) ==
    IF index > AlphabetSize THEN Ok(acc)
    ELSE IF counts[index] = 0 THEN CostOuter(counts, m, index + 1, non_zero, acc)
    ELSE LET pushed == Append(non_zero, index)
             inner == CostInner(counts, m, index, pushed, acc)
         IN  IF inner.tag # "Ok" THEN inner
             ELSE CostOuter(counts, m, index + 1, pushed, inner.value)

\* PairwiseCostMetric::compute_cost_increment
CostComputeCostIncrement(counts, m) == CostOuter(counts, m, 0, <<>>, 0)

\* MultialignMetric::compute_cost_increment of the metric object m.
ComputeCostIncrement(m, counts) ==
    IF m.kind = "match"
    THEN MatchComputeCostIncrement(counts, m.sequence_amount)
    ELSE CostComputeCostIncrement(counts, m)

----------------------------------------------------------------------------
(* Cost tables. *)

\* The tables from_csv_file accepts with cells drawn from `cells`: symmetric,
\* a missing cell (None) allowed: it is an error only when queried. The cells
\* of the kinds the bounded inputs do not use are missing.
SymmetricTables(cells) ==
    {[from \in Kinds |-> [to \in Kinds |->
         IF from \in InputKinds /\ to \in InputKinds THEN t[from][to] ELSE None]] :
     t \in {u \in [InputKinds -> [InputKinds -> cells]] :
               \A from \in InputKinds : \A to \in InputKinds : u[from][to] = u[to][from]}}

\* The table of a metric that has none (the match metric).
NoTable == [from \in Kinds |-> [to \in Kinds |-> None]]

----------------------------------------------------------------------------
(* The alignment context (the A* problem). *)

\* A node: Node { cost, identifier, predecessor }. An identifier is the tuple
\* of the K offsets (ArrayIdentifier and VecIdentifier alike).
Node(node_cost, identifier, predecessor) ==
    [cost |-> node_cost, identifier |-> identifier, predecessor |-> predecessor]

\* NodeIdentifier::create_root
IdentifierCreateRoot(sequence_amount) == [index \in 1 .. sequence_amount |-> 0]

\* IdentifierIncrement that adds two to the offset.
IdentifierIncrementByTwo(identifier, index) == [identifier EXCEPT ![index] = @ + 2]

\* NodeIdentifier::increment
IdentifierIncrement(identifier, index) == [identifier EXCEPT ![index] = @ + 1]

\* Context::create_root
CreateRoot(seqs) == Node(0, IdentifierCreateRoot(Len(seqs)), None)

\* BitSet that holds when bit `index` or any higher bit is set.
BitSetOrHigher(gaps, index) == gaps \div (2 ^ index) >= 1

\* gaps & (1 << index) != 0, index counted from 0.
BitSet(gaps, index) == (gaps \div (2 ^ index)) % 2 = 1

\* TakesCharacter testing bit `index` counted from 1: the mask shifted by one.
TakesCharacterShifted(seqs, identifier, gaps, index) ==
    BitSet(gaps, index) /\ identifier[index] < Len(seqs[index])

\* Context::generate_successors, the condition of the inner loop's if: the
\* sequence at (1-based) position `index` gives its next character.
TakesCharacter(seqs, identifier, gaps, index) ==
    BitSet(gaps, index - 1) /\ identifier[index] < Len(seqs[index])

\* SuccessorLoop that counts nothing for a selected sequence that is
\* exhausted: a gap is counted for the sequences not selected only.
RECURSIVE SuccessorLoopSkipping(_, _, _, _)
SuccessorLoopSkipping(seqs, gaps, index, state) ==
    IF index > Len(seqs) THEN state
    ELSE IF TakesCharacter(seqs, state.identifier, gaps, index)
         THEN SuccessorLoopSkipping(seqs, gaps, index + 1,
                  [identifier |-> IdentifierIncrement(state.identifier, index),
                   counts |-> CountCharacter(state.counts,
                                  seqs[index][state.identifier[index] + 1])])
         ELSE SuccessorLoopSkipping(seqs, gaps, index + 1,
                  [identifier |-> state.identifier,
                   counts |-> IF BitSet(gaps, index - 1) THEN state.counts
                              ELSE CountGap(state.counts)])

\* Context::generate_successors, the inner loop from sequence `index` on:
\* state is [identifier, counts], the identifier being built and the metric's
\* character_counts.
RECURSIVE SuccessorLoop(_, _, _, _)
SuccessorLoop(seqs, gaps, index, state) ==
    IF index > Len(seqs) THEN state
    ELSE IF TakesCharacter(seqs, state.identifier, gaps, index)
         THEN SuccessorLoop(seqs, gaps, index + 1,
                  [identifier |-> IdentifierIncrement(state.identifier, index),
                   counts |-> CountCharacter(state.counts,
                                  seqs[index][state.identifier[index] + 1])])
         ELSE SuccessorLoop(seqs, gaps, index + 1,
                  [identifier |-> state.identifier,
                   counts |-> CountGap(state.counts)])

\* GenerateSuccessor with the successor's cost the increment alone: the
\* node's cost is not added.
GenerateSuccessorIncrementOnly(seqs, m, node, gaps, counts) ==
    LET state == SuccessorLoop(seqs, gaps, 1,
                     [identifier |-> node.identifier,
                      counts |-> ResetCharacterCounts(counts)])
        cost_increment == ComputeCostIncrement(m, state.counts)
    IN  IF cost_increment.tag # "Ok" THEN [tag |-> "Panic", value |-> 0, counts |-> state.counts]
        ELSE [tag |-> "Ok",
              value |-> Node(cost_increment.value, state.identifier,
                             Some(node.identifier)),
              counts |-> state.counts]

\* Context::generate_successors, the body of the outer loop for one `gaps`:
\* the successor node, or Panic when checked_add overflows or the metric fails.
\* `counts` is the metric's character_counts as the previous successor left it.
GenerateSuccessor(seqs, m, node, gaps, counts) ==
    LET state == SuccessorLoop(seqs, gaps, 1,
                     [identifier |-> node.identifier,
                      counts |-> ResetCharacterCounts(counts)])
        cost_increment == ComputeCostIncrement(m, state.counts)
    IN  IF cost_increment.tag # "Ok" THEN [tag |-> "Panic", value |-> 0, counts |-> state.counts]
        ELSE IF ~FitsI16(node.cost + cost_increment.value)
        THEN [tag |-> "Panic", value |-> 0, counts |-> state.counts]
        ELSE [tag |-> "Ok",
              value |-> Node(node.cost + cost_increment.value, state.identifier,
                             Some(node.identifier)),
              counts |-> state.counts]

\* Context::generate_successors, the outer loop from `gaps` on: what it has
\* extended `output` by, or Panic.
RECURSIVE GenerateSuccessorsFrom(_, _, _, _, _, _)
GenerateSuccessorsFrom(seqs, m, node, gaps, counts, output) ==
    IF gaps >= 2 ^ Len(seqs) THEN Ok(output)
    ELSE LET successor == GenerateSuccessor(seqs, m, node, gaps, counts)
         IN  IF successor.tag # "Ok" THEN Panic
             ELSE GenerateSuccessorsFrom(seqs, m, node, gaps + 1, successor.counts,
                                         output \cup {successor.value})

\* Context::generate_successors
GenerateSuccessors(seqs, m, node) ==
    GenerateSuccessorsFrom(seqs, m, node, 1, ZeroCounts, {})

\* The identifiers generate_successors gives for the node of `identifier`.
SuccessorIdentifiers(seqs, identifier) ==
    {SuccessorLoop(seqs, gaps, 1,
         [identifier |-> identifier, counts |-> ZeroCounts]).identifier :
       gaps \in 1 .. 2 ^ Len(seqs) - 1}

\* The identifiers reached from those of `seen` by generate_successors, any
\* number of times.
RECURSIVE ReachableFrom(_, _)
ReachableFrom(seqs, seen) ==
    LET next == seen \cup UNION {SuccessorIdentifiers(seqs, identifier) : identifier \in seen}
    IN  IF next = seen THEN seen ELSE ReachableFrom(seqs, next)

\* Context::is_target
IsTarget(seqs, node) ==
    \A index \in 1 .. Len(seqs) : node.identifier[index] = Len(seqs[index])

----------------------------------------------------------------------------
(* The A* driver (generic_a_star): best-first expansion with f = g + h and  *)
(* h = 0, a closed list of the identifiers already expanded, and the        *)
(* backtrack from the target along the predecessors.                        *)

\* The least f = cost + lower bound of the open list (Node::a_star_lower_bound
\* is zero).
MinCost(open) ==
    LET costs == {node.cost : node \in open}
    IN  CHOOSE least \in costs : \A other \in costs : least <= other

\* The open nodes of least f: a pop returns one of them, in the driver's order.
MinNodes(open) ==
    LET least == MinCost(open)
    IN  {node \in open : node.cost = least}

IsClosed(closed, identifier) == \E node \in closed : node.identifier = identifier

ClosedNode(closed, identifier) == CHOOSE node \in closed : node.identifier = identifier

\* The nodes the next pop is drawn from. Popping a node whose identifier is
\* closed only removes it from the open list, whenever it happens, so the pops
\* of closed nodes of least f are taken first and in a fixed order: every order
\* of expansions of the driver is still among the behaviours.
PopCandidates(open, closed) ==
    LET least == MinNodes(open)
        stale == {node \in least : IsClosed(closed, node.identifier)}
    IN  IF stale # {} THEN {CHOOSE node \in stale : TRUE} ELSE least

\* AStar::backtrack: the edges (predecessor_edge_type: the node itself) from
\* the node of `identifier` back to the root, the root giving none.
RECURSIVE Backtrack(_, _)
Backtrack(closed, identifier) ==
    LET node == ClosedNode(closed, identifier)
    IN  IF node.predecessor = None THEN <<>>
        ELSE <<node>> \o Backtrack(closed, Unwrap(node.predecessor))

----------------------------------------------------------------------------
(* backtrack_cigar *)

\* ToChar that gives the alphabet's first character whatever the character.
ToCharFirst(character) == AlphabetChars[1]

\* The alphabet character's ASCII form (clone().into() a char).
ToChar(character) == AlphabetChars[character + 1]

Digits == <<"0", "1", "2", "3", "4", "5", "6", "7", "8", "9">>

\* format!("{amount}"): the decimal digits of a usize.
RECURSIVE ToDecimal(_)
ToDecimal(n) ==
    IF n < 10 THEN <<Digits[n + 1]>>
    ELSE ToDecimal(n \div 10) \o <<Digits[(n % 10) + 1]>>

CigarMatch(amount) == [type |-> "Match", amount |-> amount, column |-> <<>>]
CigarMismatch(column) == [type |-> "Mismatch", amount |-> 0, column |-> column]

\* backtrack_cigar, the inner loop: the column of an edge, None for a gap.
EdgeColumn(seqs, edge) ==
    [index \in 1 .. Len(seqs) |->
        LET predecessor_offset == Unwrap(edge.predecessor)[index]
            offset == edge.identifier[index]
        IN  IF predecessor_offset = offset THEN None
            ELSE Some(ToChar(seqs[index][predecessor_offset + 1]))]

\* The column is a Match column by mistake when its characters agree, the
\* gaps left aside.
CigarPushGapsAside(elements, column) ==
    LET column_set == {column[index] : index \in DOMAIN column} \ {None}
    IN  IF Cardinality(column_set) = 1
        THEN IF elements # <<>> /\ elements[Len(elements)].type = "Match"
             THEN [elements EXCEPT ![Len(elements)].amount = @ + 1]
             ELSE Append(elements, CigarMatch(1))
        ELSE Append(elements, CigarMismatch(column))

\* CigarPush that never extends the last Match element: one element a column.
CigarPushNoMerge(elements, column) ==
    LET column_set == {column[index] : index \in DOMAIN column}
    IN  IF Cardinality(column_set) = 1
        THEN Append(elements, CigarMatch(1))
        ELSE Append(elements, CigarMismatch(column))

\* backtrack_cigar, the body of the loop over the edges: `elements` is cigar.
CigarPush(elements, column) ==
    LET column_set == {column[index] : index \in DOMAIN column}
    IN  IF Cardinality(column_set) = 1
        THEN IF elements # <<>> /\ elements[Len(elements)].type = "Match"
             THEN [elements EXCEPT ![Len(elements)].amount = @ + 1]
             ELSE Append(elements, CigarMatch(1))
        ELSE Append(elements, CigarMismatch(column))

\* backtrack_cigar, the loop over the edges.
RECURSIVE CigarElements(_, _, _)
CigarElements(seqs, edges, elements) ==
    IF edges = <<>> THEN elements
    ELSE CigarElements(seqs, Tail(edges), CigarPush(elements, EdgeColumn(seqs, Head(edges))))

\* ElementString with the M before the amount.
ElementStringPrefixed(element) ==
    IF element.type = "Match" THEN <<"M">> \o ToDecimal(element.amount)
    ELSE <<"[">>
         \o [index \in DOMAIN element.column |->
                IF element.column[index] = None THEN "-"
                ELSE Unwrap(element.column[index])]
         \o <<"]">>

\* backtrack_cigar, the text of one element.
ElementString(element) ==
    IF element.type = "Match" THEN ToDecimal(element.amount) \o <<"M">>
    ELSE <<"[">>
         \o [index \in DOMAIN element.column |->
                IF element.column[index] = None THEN "-"
                ELSE Unwrap(element.column[index])]
         \o <<"]">>

\* CigarString in the order of cigar.iter(), without the rev().
RECURSIVE CigarStringForward(_, _)
CigarStringForward(elements, index) ==
    IF index = 0 THEN <<>>
    ELSE CigarStringForward(elements, index - 1) \o ElementString(elements[index])

\* backtrack_cigar, the loop over cigar.iter().rev(): from element `index` down.
RECURSIVE CigarString(_, _)
CigarString(elements, index) ==
    IF index = 0 THEN <<>>
    ELSE ElementString(elements[index]) \o CigarString(elements, index - 1)

\* backtrack_cigar
BacktrackCigar(seqs, edges) ==
    LET elements == CigarElements(seqs, edges, <<>>)
    IN  CigarString(elements, Len(elements))

----------------------------------------------------------------------------
(* SpecMetric: one metric object, driven as generate_successors drives it:  *)
(* reset_character_counts, then count_character / count_gap calls, then     *)
(* compute_cost_increment.                                                  *)

\* No compute_cost_increment since the last reset or count.
NotComputed == [tag |-> "NotComputed", value |-> 0]

\* The cells of the cost tables of SpecMetric: a missing cell, a negative, a
\* zero and a positive cost.
CellValues == {None, Some(-1), Some(0), Some(2)}

\* PairwiseMatchMetric::new: sequence_amount must convert to i8.
MatchMetric(sequence_amount) ==
    [kind |-> "match", sequence_amount |-> sequence_amount, table |-> NoTable]

\* PairwiseCostMetric::from_csv_file, in a build whose cost type gives
\* `on_overflow` when `+=` overflows.
CostMetricOn(table, on_overflow) ==
    [kind |-> "cost", sequence_amount |-> 0, table |-> table,
     on_overflow |-> on_overflow]

\* PairwiseCostMetric::from_csv_file. With the tables of Spec, SpecNegative and
\* SpecMetric no sum leaves 16 bits, so the build does not show.
CostMetric(table) == CostMetricOn(table, "panic")

MetricObjects ==
    {MatchMetric(n) : n \in 0 .. MaxColumn}
        \cup {CostMetric(t) : t \in SymmetricTables(CellValues)}

SearchIdle ==
    /\ sequences = <<>>
    /\ metric = MatchMetric(0)
    /\ pc = "idle"
    /\ open_list = {}
    /\ closed_list = {}
    /\ outcome = "None"
    /\ cost = 0
    /\ cigar = <<>>

MetricIdle ==
    /\ m_metric = MatchMetric(0)
    /\ character_counts = ZeroCounts
    /\ m_column = <<>>
    /\ m_result = NotComputed

DispatchIdle ==
    /\ d_len = 0
    /\ d_bits = 64
    /\ d_pc = "idle"
    /\ d_result = "None"

CigarIdle ==
    /\ c_sequences = <<>>
    /\ c_edges = <<>>
    /\ c_index = 0
    /\ c_cigar = <<>>
    /\ c_string = <<>>
    /\ c_pc = "idle"

DuplicatesIdle ==
    /\ record_ids = <<>>
    /\ duplicate_ids = <<>>
    /\ l_pc = "idle"
    /\ l_result = "None"

----------------------------------------------------------------------------
(* Spec: one call of multialign_astar_with_identifier.                      *)

\* The sequences of length n over the input characters.
SequencesOfLength(n) == [1 .. n -> InputCharacters]

\* The number of offset tuples of the sequences: the nodes of the search.
RECURSIVE LatticeSize(_)
LatticeSize(seqs) ==
    IF seqs = <<>> THEN 1 ELSE (Len(Head(seqs)) + 1) * LatticeSize(Tail(seqs))

\* The tuples of `amount` sequences of total length at most `total`.
RECURSIVE InputsOf(_, _)
InputsOf(amount, total) ==
    IF amount = 0 THEN {<<>>}
    ELSE UNION {{<<first>> \o rest : rest \in InputsOf(amount - 1, total - n),
                                     first \in SequencesOfLength(n)} :
                n \in 0 .. total}

\* The inputs of an alignment call: 2 to MaxSeqs sequences of total length at
\* most MaxTotalLen that span at most MaxLattice offset tuples.
Inputs ==
    {seqs \in UNION {InputsOf(amount, MaxTotalLen) : amount \in 2 .. MaxSeqs} :
        LatticeSize(seqs) <= MaxLattice}

\* Cost tables of alignment calls, all cells present. Non-zero on the diagonal:
DiagonalTable == [from \in Kinds |-> [to \in Kinds |-> Some(IF from = to THEN 1 ELSE 2)]]
\* and with a negative cell: substitutions cost -2, the first character
\* against a gap 1, everything else 0.
NegativeTable ==
    [from \in Kinds |-> [to \in Kinds |->
        Some(IF from = to THEN 0
             ELSE IF GapIndex \in {from, to} THEN (IF 0 \in {from, to} THEN 1 ELSE 0)
             ELSE -2)]]

\* The metrics an alignment of `seqs` is called with in Spec: the match metric
\* made for that many sequences, or a cost metric without negative cells.
SearchMetrics(seqs) == {MatchMetric(Len(seqs)), CostMetric(DiagonalTable)}

\* Before AStar::new: nothing searched, nothing logged.
SearchStart ==
    /\ pc = "start"
    /\ open_list = {}
    /\ closed_list = {}
    /\ outcome = "None"
    /\ cost = 0
    /\ cigar = <<>>
    /\ MetricIdle
    /\ DispatchIdle
    /\ CigarIdle
    /\ DuplicatesIdle

Init ==
    /\ sequences \in Inputs
    /\ metric \in SearchMetrics(sequences)
    /\ SearchStart

\* The same call with a cost table that has a negative cell.
NegativeMetrics(seqs) == {CostMetric(NegativeTable)}

InitNegative ==
    /\ sequences \in Inputs
    /\ metric \in NegativeMetrics(sequences)
    /\ SearchStart

\* AStar::new and AStar::initialise: the root goes to the open list.
Initialise ==
    /\ pc = "start"
    /\ open_list' = {CreateRoot(sequences)}
    /\ closed_list' = {}
    /\ pc' = "search"
    /\ UNCHANGED <<sequences, metric, outcome, cost, cigar, metricVars, dispatchVars, cigarVars, duplicateVars>>

\* One iteration of the loop of AStar::search: pop a node of least cost; skip
\* it when its identifier is closed; else generate its successors, close it
\* and stop if it is the target. An empty open list ends the search NoTarget,
\* which the caller meets with unreachable!(); so does a panic of
\* generate_successors.
SearchStep ==
    /\ pc = "search"
    /\ IF open_list = {}
       THEN /\ outcome' = "NoTarget"
            /\ pc' = "failed"
            /\ UNCHANGED <<open_list, closed_list, cost>>
       ELSE \E node \in PopCandidates(open_list, closed_list) :
              IF IsClosed(closed_list, node.identifier)
              THEN /\ open_list' = open_list \ {node}
                   /\ UNCHANGED <<closed_list, outcome, cost, pc>>
              ELSE LET successors == GenerateSuccessors(sequences, metric, node)
                   IN  IF successors.tag # "Ok"
                       THEN /\ outcome' = "Panic"
                            /\ pc' = "failed"
                            /\ UNCHANGED <<open_list, closed_list, cost>>
                       ELSE /\ open_list' = (open_list \ {node}) \cup successors.value
                            /\ closed_list' = closed_list \cup {node}
                            /\ IF IsTarget(sequences, node)
                               THEN /\ outcome' = "FoundTarget"
                                    /\ cost' = node.cost
                                    /\ pc' = "found"
                               ELSE UNCHANGED <<outcome, cost, pc>>
    /\ UNCHANGED <<sequences, metric, cigar, metricVars, dispatchVars, cigarVars, duplicateVars>>

\* The identifier search() found: the closed node that is the target.
TargetIdentifier(seqs) == [index \in 1 .. Len(seqs) |-> Len(seqs[index])]

\* After FoundTarget: backtrack_cigar(sequences, a_star.backtrack()).
LogAlignment ==
    /\ pc = "found"
    /\ cigar' = BacktrackCigar(sequences, Backtrack(closed_list, TargetIdentifier(sequences)))
    /\ pc' = "done"
    /\ UNCHANGED <<sequences, metric, open_list, closed_list, outcome, cost,
                   metricVars, dispatchVars, cigarVars, duplicateVars>>

Next == Initialise \/ SearchStep \/ LogAlignment

Spec == Init /\ [][Next]_vars

\* The call has returned or panicked.
Terminated == pc \in {"done", "failed"}

\* The call runs to its end: it is single-threaded and never waits. This is
\* weak fairness of Next, WF_vars(Next), with ENABLED <<Next>>_vars written
\* out: every action is guarded by its value of pc alone and changes vars, so
\* a step of Next is possible exactly when the call has not terminated.
FairSpec == Spec /\ ([]<>Terminated \/ []<><<Next>>_vars)

SpecNegative == InitNegative /\ [][Next]_vars

\* A cost table with cells that fit 16 bits and sums that do not: a
\* substitution costs 20000, the first character against a gap 20000, another
\* character against a gap 1, equal kinds 0.
LargeTable ==
    [from \in Kinds |-> [to \in Kinds |->
        Some(IF from = to THEN 0
             ELSE IF GapIndex \in {from, to} THEN (IF 0 \in {from, to} THEN 20000 ELSE 1)
             ELSE 20000)]]

\* A cost table with a cell whose double does not fit 32 bits: the second
\* character against a gap costs 1500000000, every other pair of different
\* kinds 1, equal kinds 0.
HugeTable ==
    [from \in Kinds |-> [to \in Kinds |->
        Some(IF from = to THEN 0
             ELSE IF {from, to} = {1, GapIndex} THEN 1500000000
             ELSE 1)]]

\* The alignment call with the large and the huge table, in every build.
LargeMetrics(seqs) ==
    {CostMetricOn(table, on_overflow) :
        table \in {LargeTable, HugeTable}, on_overflow \in OverflowOutcomes}

InitOverflow ==
    /\ sequences \in Inputs
    /\ metric \in LargeMetrics(sequences)
    /\ SearchStart

SpecOverflow == InitOverflow /\ [][Next]_vars

\* The alignment call of the single-indel example: "ACGT" and "AGT" under the
\* match metric.
ExampleSequences == <<<<0, 1, 2, 3>>, <<0, 2, 3>>>>

\* The example's call, and the call with the two sequences exchanged.
ExampleInputs == {ExampleSequences, <<ExampleSequences[2], ExampleSequences[1]>>}

InitExample ==
    /\ sequences \in ExampleInputs
    /\ metric = MatchMetric(Len(ExampleSequences))
    /\ SearchStart

SpecExample == InitExample /\ [][Next]_vars

InitMetric ==
    /\ m_metric \in MetricObjects
    /\ character_counts = ZeroCounts
    /\ m_column = <<>>
    /\ m_result = NotComputed
    /\ SearchIdle
    /\ DispatchIdle
    /\ CigarIdle
    /\ DuplicatesIdle

M_Reset ==
    /\ character_counts' = ResetCharacterCounts(character_counts)
    /\ m_column' = <<>>
    /\ m_result' = NotComputed
    /\ UNCHANGED <<m_metric, searchVars, dispatchVars, cigarVars, duplicateVars>>

M_CountCharacter ==
    /\ Len(m_column) < MaxColumn
    /\ \E character \in InputCharacters :
           /\ character_counts' = CountCharacter(character_counts, character)
           /\ m_column' = Append(m_column, character)
    /\ m_result' = NotComputed
    /\ UNCHANGED <<m_metric, searchVars, dispatchVars, cigarVars, duplicateVars>>

M_CountGap ==
    /\ Len(m_column) < MaxColumn
    /\ character_counts' = CountGap(character_counts)
    /\ m_column' = Append(m_column, GapIndex)
    /\ m_result' = NotComputed
    /\ UNCHANGED <<m_metric, searchVars, dispatchVars, cigarVars, duplicateVars>>

M_Compute ==
    /\ m_result' = ComputeCostIncrement(m_metric, character_counts)
    /\ UNCHANGED <<m_metric, character_counts, m_column, searchVars, dispatchVars, cigarVars, duplicateVars>>

NextMetric == M_Reset \/ M_CountCharacter \/ M_CountGap \/ M_Compute

SpecMetric == InitMetric /\ [][NextMetric]_vars

----------------------------------------------------------------------------
(* SpecDispatch: multialign_astar on d_len sequences, in a build whose       *)
(* usize has d_bits bits. The amounts are small enough for the conversion of *)
(* sequences.len() to u32 to succeed.                                        *)

UsizeBits == {32, 64}

\* MaxSequenceAmount without the - 1.
MaxSequenceAmountAllBits(bits) == bits

\* multialign_astar: max_sequence_amount = usize::BITS - 1
MaxSequenceAmount(bits) == bits - 1

\* DispatchArm whose panic arm is `0` alone and whose array arms start at 1.
DispatchArmFromOne(len) ==
    IF len = 0 THEN "Panic"
    ELSE IF len \in 1 .. 63 THEN "Array"
    ELSE "Vec"

\* multialign_astar, the match on sequences.len(): the arm taken.
DispatchArm(len) ==
    IF len \in {0, 1} THEN "Panic"
    ELSE IF len \in 2 .. 63 THEN "Array"
    ELSE "Vec"

InitDispatch ==
    /\ d_len \in 0 .. MaxSeqAmount
    /\ d_bits \in UsizeBits
    /\ d_pc = "entry"
    /\ d_result = "None"
    /\ SearchIdle
    /\ MetricIdle
    /\ CigarIdle
    /\ DuplicatesIdle

\* multialign_astar up to the match: the bail!() when there are too many
\* sequences.
D_CheckAmount ==
    /\ d_pc = "entry"
    /\ IF d_len > MaxSequenceAmount(d_bits)
       THEN d_result' = "Err" /\ d_pc' = "returned"
       ELSE d_result' = d_result /\ d_pc' = "checked"
    /\ UNCHANGED <<d_len, d_bits, searchVars, metricVars, cigarVars, duplicateVars>>

\* multialign_astar, the match: panic, or multialign_astar_with_identifier
\* with the ArrayIdentifier or the VecIdentifier.
D_Match ==
    /\ d_pc = "checked"
    /\ d_result' = DispatchArm(d_len)
    /\ d_pc' = "returned"
    /\ UNCHANGED <<d_len, d_bits, searchVars, metricVars, cigarVars, duplicateVars>>

NextDispatch == D_CheckAmount \/ D_Match

SpecDispatch == InitDispatch /\ [][NextDispatch]_vars

----------------------------------------------------------------------------
(* SpecDuplicates: execute_with_alphabet from the loaded records to the call *)
(* of multialign_astar. A record id is a number; ids compare as numbers.     *)

IdValues == 1 .. MaxIdValue

\* The ids of the loaded records, in the order loaded.
RecordIdLists == UNION {[1 .. amount -> IdValues] : amount \in 0 .. MaxRecords}

\* sort_unstable, by insertion: `element` into the sorted list.
RECURSIVE SortedInsert(_, _)
SortedInsert(sorted, element) ==
    IF sorted = <<>> THEN <<element>>
    ELSE IF element <= Head(sorted) THEN <<element>> \o sorted
    ELSE <<Head(sorted)>> \o SortedInsert(Tail(sorted), element)

\* record_ids.sort_unstable()
RECURSIVE SortUnstable(_)
SortUnstable(list) ==
    IF list = <<>> THEN <<>>
    ELSE SortedInsert(SortUnstable(Tail(list)), Head(list))

\* DuplicateStep without the test of duplicates.last().
DuplicateStepRepeating(duplicates, last_element, element) ==
    IF element = last_element THEN Append(duplicates, element) ELSE duplicates

\* list_duplicates, the body of the loop: duplicates after `element`.
DuplicateStep(duplicates, last_element, element) ==
    IF element = last_element
       /\ (duplicates = <<>> \/ duplicates[Len(duplicates)] # element)
    THEN Append(duplicates, element)
    ELSE duplicates

\* list_duplicates, the loop over slice[1..] from (1-based) position `index`.
RECURSIVE ListDuplicatesLoop(_, _, _, _)
ListDuplicatesLoop(slice, index, last_element, duplicates) ==
    IF index > Len(slice) THEN duplicates
    ELSE ListDuplicatesLoop(slice, index + 1, slice[index],
                            DuplicateStep(duplicates, last_element, slice[index]))

\* list_duplicates
ListDuplicates(slice) ==
    IF slice = <<>> THEN <<>>
    ELSE ListDuplicatesLoop(slice, 2, slice[1], <<>>)

InitDuplicates ==
    /\ record_ids \in RecordIdLists
    /\ duplicate_ids = <<>>
    /\ l_pc = "loaded"
    /\ l_result = "None"
    /\ SearchIdle
    /\ MetricIdle
    /\ DispatchIdle
    /\ CigarIdle

\* The bail!() when there is no record or only one.
L_CheckAmount ==
    /\ l_pc = "loaded"
    /\ IF Len(record_ids) <= 1
       THEN l_result' = "Err" /\ l_pc' = "returned"
       ELSE l_result' = l_result /\ l_pc' = "counted"
    /\ UNCHANGED <<record_ids, duplicate_ids,
                   searchVars, metricVars, dispatchVars, cigarVars>>

\* record_ids.sort_unstable()
L_Sort ==
    /\ l_pc = "counted"
    /\ record_ids' = SortUnstable(record_ids)
    /\ l_pc' = "sorted"
    /\ UNCHANGED <<duplicate_ids, l_result,
                   searchVars, metricVars, dispatchVars, cigarVars>>

\* let duplicate_ids = list_duplicates(&record_ids)
L_ListDuplicates ==
    /\ l_pc = "sorted"
    /\ duplicate_ids' = ListDuplicates(record_ids)
    /\ l_pc' = "listed"
    /\ UNCHANGED <<record_ids, l_result,
                   searchVars, metricVars, dispatchVars, cigarVars>>

\* The bail!() when duplicate_ids is not empty; else multialign_astar is called.
L_CheckDuplicates ==
    /\ l_pc = "listed"
    /\ l_result' = IF duplicate_ids # <<>> THEN "Err" ELSE "Aligning"
    /\ l_pc' = "returned"
    /\ UNCHANGED <<record_ids, duplicate_ids,
                   searchVars, metricVars, dispatchVars, cigarVars>>

NextDuplicates == L_CheckAmount \/ L_Sort \/ L_ListDuplicates \/ L_CheckDuplicates

SpecDuplicates == InitDuplicates /\ [][NextDuplicates]_vars

----------------------------------------------------------------------------
(* Reference definitions the properties are stated with: alignments and     *)
(* their costs, written without the search.                                 *)

SetMin(S) == CHOOSE least \in S : \A other \in S : least <= other

RECURSIVE SeqSum(_)
SeqSum(numbers) == IF numbers = <<>> THEN 0 ELSE Head(numbers) + SeqSum(Tail(numbers))

Reverse(list) == [index \in 1 .. Len(list) |-> list[Len(list) + 1 - index]]

\* The column of the edge between two offset tuples, as entry kinds: the
\* character a sequence gives when its offset advances, the gap otherwise.
KindColumn(seqs, from, to) ==
    [index \in 1 .. Len(seqs) |->
        IF to[index] = from[index] THEN GapIndex ELSE seqs[index][from[index] + 1]]

\* How often each kind occurs in a column.
KindCounts(column) ==
    [kind \in Kinds |-> Cardinality({index \in DOMAIN column : column[index] = kind})]

\* What the metric m charges for a column.
ColumnCost(m, column) == ComputeCostIncrement(m, KindCounts(column)).value

\* The offset tuple after the sequences in `moved` gave a character.
Advance(identifier, moved) ==
    [index \in DOMAIN identifier |->
        IF index \in moved THEN identifier[index] + 1 ELSE identifier[index]]

\* The least cost of a path from `identifier` to the target whose columns
\* each hold at least one character.
RECURSIVE MinPathCost(_, _, _)
MinPathCost(seqs, m, identifier) ==
    LET movable == {index \in 1 .. Len(seqs) : identifier[index] < Len(seqs[index])}
    IN  IF movable = {} THEN 0
        ELSE SetMin({ColumnCost(m, KindColumn(seqs, identifier, Advance(identifier, moved)))
                         + MinPathCost(seqs, m, Advance(identifier, moved)) :
                     moved \in (SUBSET movable) \ {{}}})

\* Sequence s as text.
SequenceText(s) == [position \in 1 .. Len(s) |-> AlphabetChars[s[position] + 1]]

\* The search has reported its result.
Found == pc \in {"found", "done"}

\* The edges a_star.backtrack() returns for the result, target first.
ResultEdges == Backtrack(closed_list, TargetIdentifier(sequences))

\* The columns backtrack_cigar reconstructs for the result, root first.
ResultColumns ==
    LET edges == Reverse(ResultEdges)
    IN  [position \in 1 .. Len(edges) |-> EdgeColumn(sequences, edges[position])]

\* Row `index` of the columns without its gaps.
RECURSIVE RowWithoutGaps(_, _)
RowWithoutGaps(columns, index) ==
    IF columns = <<>> THEN <<>>
    ELSE (IF Head(columns)[index] = None THEN <<>> ELSE <<Unwrap(Head(columns)[index])>>)
         \o RowWithoutGaps(Tail(columns), index)

\* All sequences are the same sequence.
AllEqual(seqs) == \A index \in 1 .. Len(seqs) : seqs[index] = seqs[1]

\* The number of unordered pairs of positions of a column whose entries differ.
DifferingPairs(column) ==
    Cardinality({pair \in (DOMAIN column) \X (DOMAIN column) :
                    pair[1] < pair[2] /\ column[pair[1]] # column[pair[2]]})

\* K(K-1)/2 minus the pairs of equal entries, from the counts of the kinds.
RECURSIVE SamePairs(_, _)
SamePairs(counts, kind) ==
    IF kind > AlphabetSize THEN 0
    ELSE (counts[kind] * (counts[kind] - 1)) \div 2 + SamePairs(counts, kind + 1)

PairsByCounts(column) ==
    (Len(column) * (Len(column) - 1)) \div 2 - SamePairs(KindCounts(column), 0)

\* The sum of T[entry_i][entry_j] over the unordered pairs i < j of positions
\* of a column, from position pair (i, j) on; a missing cell counts 0.
RECURSIVE PairSum(_, _, _, _)
PairSum(table, column, i, j) ==
    IF i >= Len(column) THEN 0
    ELSE IF j > Len(column) THEN PairSum(table, column, i + 1, i + 2)
    ELSE (IF table[column[i]][column[j]] = None THEN 0
          ELSE Unwrap(table[column[i]][column[j]]))
         + PairSum(table, column, i, j + 1)

\* AStar::search from the open and closed lists given, the pops taken in one
\* fixed order (TLC's choice among PopCandidates): what it returns and the
\* closed list it leaves.
RECURSIVE SearchInOrder(_, _, _, _)
SearchInOrder(seqs, m, open, closed) ==
    IF open = {} THEN [outcome |-> "NoTarget", cost |-> 0, closed |-> closed]
    ELSE LET node == CHOOSE candidate \in PopCandidates(open, closed) : TRUE
         IN  IF IsClosed(closed, node.identifier)
             THEN SearchInOrder(seqs, m, open \ {node}, closed)
             ELSE LET successors == GenerateSuccessors(seqs, m, node)
                  IN  IF successors.tag # "Ok"
                      THEN [outcome |-> "Panic", cost |-> 0, closed |-> closed]
                      ELSE IF IsTarget(seqs, node)
                      THEN [outcome |-> "FoundTarget", cost |-> node.cost,
                            closed |-> closed \cup {node}]
                      ELSE SearchInOrder(seqs, m, (open \ {node}) \cup successors.value,
                                         closed \cup {node})

\* The run of the alignment call on the current input with that fixed order,
\* and the string it logs.
FixedOrderRun == SearchInOrder(sequences, metric, {CreateRoot(sequences)}, {})

FixedOrderCigar ==
    BacktrackCigar(sequences, Backtrack(FixedOrderRun.closed, TargetIdentifier(sequences)))

\* The paths from `identifier` to the target, each the sequence of its steps
\* [from, to]; every step advances at least one offset.
RECURSIVE PathsFrom(_, _)
PathsFrom(seqs, identifier) ==
    LET movable == {index \in 1 .. Len(seqs) : identifier[index] < Len(seqs[index])}
    IN  IF movable = {} THEN {<<>>}
        ELSE UNION {{<<[from |-> identifier, to |-> Advance(identifier, moved)]>> \o rest :
                        rest \in PathsFrom(seqs, Advance(identifier, moved))} :
                    moved \in (SUBSET movable) \ {{}}}

\* The alignments of seqs: the paths from the root to the target.
Alignments(seqs) == PathsFrom(seqs, IdentifierCreateRoot(Len(seqs)))

\* What the metric m charges for the columns of a path.
PathCost(seqs, m, path) ==
    SeqSum([position \in 1 .. Len(path) |->
               ColumnCost(m, KindColumn(seqs, path[position].from, path[position].to))])

\* The column of a step as text: the character given, "-" for a gap.
TextColumn(seqs, step) ==
    [index \in 1 .. Len(seqs) |->
        IF step.to[index] = step.from[index] THEN "-"
        ELSE AlphabetChars[seqs[index][step.from[index] + 1] + 1]]

\* The columns of a path as text, root first.
TextColumns(seqs, path) == [position \in 1 .. Len(path) |-> TextColumn(seqs, path[position])]

\* All entries of a column are the same.
Uniform(column) == \A index \in DOMAIN column : column[index] = column[1]

\* The number of consecutive uniform columns from `position` on.
RECURSIVE RunLength(_, _)
RunLength(columns, position) ==
    IF position > Len(columns) \/ ~Uniform(columns[position]) THEN 0
    ELSE 1 + RunLength(columns, position + 1)

\* The CIGAR text of text columns from `position` on, in the order given: a
\* maximal run of n uniform columns is nM, any other column its entries in
\* brackets.
RECURSIVE RenderColumns(_, _)
RenderColumns(columns, position) ==
    IF position > Len(columns) THEN <<>>
    ELSE IF Uniform(columns[position])
    THEN ToDecimal(RunLength(columns, position)) \o <<"M">>
         \o RenderColumns(columns, position + RunLength(columns, position))
    ELSE <<"[">> \o columns[position] \o <<"]">> \o RenderColumns(columns, position + 1)

\* The CIGAR strings of the alignments of least cost under the metric m.
OptimalCigars(seqs, m) ==
    LET least == MinPathCost(seqs, m, IdentifierCreateRoot(Len(seqs)))
    IN  {RenderColumns(TextColumns(seqs, path), 1) :
            path \in {candidate \in Alignments(seqs) : PathCost(seqs, m, candidate) = least}}

----------------------------------------------------------------------------
(* SpecCigar: one call of backtrack_cigar, on the edges of any alignment of  *)
(* the sequences (the search hands it those of the alignment it found).      *)

\* The sequences of a backtrack_cigar call: two of total length at most
\* MaxCigarTotal, or three of total length at most MaxCigarTotal - 2.
CigarInputs == InputsOf(2, MaxCigarTotal) \cup InputsOf(3, MaxCigarTotal - 2)

\* The edges of a path as AStar::backtrack returns them: the nodes after the
\* root, target first. backtrack_cigar does not read their cost.
PathEdges(path) ==
    Reverse([position \in 1 .. Len(path) |->
                Node(0, path[position].to, Some(path[position].from))])

InitCigar ==
    /\ c_sequences \in CigarInputs
    /\ c_edges \in {PathEdges(path) : path \in Alignments(c_sequences)}
    /\ c_index = 0
    /\ c_cigar = <<>>
    /\ c_string = <<>>
    /\ c_pc = "called"
    /\ SearchIdle
    /\ MetricIdle
    /\ DispatchIdle
    /\ DuplicatesIdle

\* One iteration of the loop over the edges.
C_Edge ==
    /\ c_pc = "called"
    /\ c_index < Len(c_edges)
    /\ c_cigar' = CigarPush(c_cigar, EdgeColumn(c_sequences, c_edges[c_index + 1]))
    /\ c_index' = c_index + 1
    /\ UNCHANGED <<c_sequences, c_edges, c_string, c_pc,
                   searchVars, metricVars, dispatchVars, duplicateVars>>

\* The loop over cigar.iter().rev() and the return.
C_Format ==
    /\ c_pc = "called"
    /\ c_index = Len(c_edges)
    /\ c_string' = CigarString(c_cigar, Len(c_cigar))
    /\ c_pc' = "returned"
    /\ UNCHANGED <<c_sequences, c_edges, c_index, c_cigar,
                   searchVars, metricVars, dispatchVars, duplicateVars>>

NextCigar == C_Edge \/ C_Format

SpecCigar == InitCigar /\ [][NextCigar]_vars

\* The columns of the edges the loop has taken, as text, in the order taken.
TakenColumns ==
    [position \in 1 .. c_index |->
        TextColumn(c_sequences, [from |-> Unwrap(c_edges[position].predecessor),
                                 to |-> c_edges[position].identifier])]

NotUniform(column) == ~Uniform(column)

IsMismatch(element) == element.type = "Mismatch"

\* The column of a Mismatch element as text.
MismatchText(element) ==
    [index \in DOMAIN element.column |->
        IF element.column[index] = None THEN "-" ELSE Unwrap(element.column[index])]

\* The sum of the amounts of the Match elements.
RECURSIVE MatchAmount(_)
MatchAmount(elements) ==
    IF elements = <<>> THEN 0
    ELSE (IF Head(elements).type = "Match" THEN Head(elements).amount ELSE 0)
         + MatchAmount(Tail(elements))

----------------------------------------------------------------------------
(* The properties. *)

\* C1: Optimality. The cost the search reports equals the least sum of
\* per-column metric costs over all paths from the root to the target (all
\* alignments whose columns each hold at least one character). It holds of
\* Spec; a cost table with a negative cell (SpecNegative) violates it.
C1_Optimality ==
    Found => cost = MinPathCost(sequences, metric, IdentifierCreateRoot(Len(sequences)))

C3_AlignmentFidelity ==
    Found =>
        \A index \in 1 .. Len(sequences) :
            RowWithoutGaps(ResultColumns, index) = SequenceText(sequences[index])

C3_Witness ==
    /\ pc = "done"
    /\ Len(ResultColumns) >= 3
    /\ \E position \in 1 .. Len(ResultColumns) :
           \E i \in 1 .. Len(sequences) : \E j \in 1 .. Len(sequences) :
               /\ ResultColumns[position][i] = None
               /\ ResultColumns[position][j] = Some("C")

\* C4: The reported cost is the sum, over the edges of the returned backtrack,
\* of the metric's cost of the column of that edge; the root has cost 0.
C4_CostIsSumOfColumnCosts ==
    Found =>
        /\ cost = SeqSum([position \in 1 .. Len(ResultEdges) |->
                     ColumnCost(metric,
                         KindColumn(sequences,
                                    Unwrap(ResultEdges[position].predecessor),
                                    ResultEdges[position].identifier))])
        /\ ClosedNode(closed_list, IdentifierCreateRoot(Len(sequences))).cost = 0

C4_Witness ==
    /\ pc = "done"
    /\ Len(ResultEdges) >= 2
    /\ cost >= 2
    /\ \E i \in 1 .. Len(ResultEdges) : \E j \in 1 .. Len(ResultEdges) :
           /\ i # j
           /\ ResultEdges[i].cost # ResultEdges[j].cost
           /\ ResultEdges[i].cost > 0 /\ ResultEdges[j].cost > 0

\* C5 as stated: with more than 63 sequences multialign_astar selects the
\* VecIdentifier representation and completes without error.
C5_VecIdentifierAbove63 ==
    (d_pc = "returned" /\ d_len > 63) => d_result = "Vec"

\* C5 as amended: with more than 63 sequences multialign_astar returns an
\* error (more than usize::BITS - 1 sequences), and the VecIdentifier arm is
\* never taken.
C5_ErrorAbove63 ==
    /\ (d_pc = "returned" /\ d_len > 63) => d_result = "Err"
    /\ d_result # "Vec"

C5_Witness == d_pc = "returned" /\ d_len = 64 /\ d_bits = 64 /\ d_result = "Err"

\* C6: K-range rejection. K >= usize::BITS returns an error before the search
\* is entered, K <= 1 panics, and the search is entered (an identifier
\* representation selected) only for K with 1 << K not overflowing a usize.
C6_RangeRejection ==
    d_pc = "returned" =>
        /\ d_len >= d_bits => d_result = "Err"
        /\ d_len <= 1 => d_result = "Panic"
        /\ d_result \in {"Array", "Vec"} => (2 <= d_len /\ d_len < d_bits)

C6_Witness ==
    /\ d_pc = "returned" /\ d_len = d_bits /\ d_result = "Err"

\* C7: Pairwise-match metric. For a column of K entries, K the metric's
\* sequence amount, compute_cost_increment returns the number of unordered
\* pairs of entries that differ (gaps equal gaps), which is K(K-1)/2 minus the
\* sum over the kinds of c(c-1)/2.
C7_MatchCountsDifferingPairs ==
    (m_metric.kind = "match" /\ m_result # NotComputed
        /\ Len(m_column) = m_metric.sequence_amount) =>
        /\ m_result = Ok(DifferingPairs(m_column))
        /\ m_result = Ok(PairsByCounts(m_column))

C7_Witness ==
    /\ m_metric.kind = "match" /\ m_metric.sequence_amount = 3
    /\ m_column = <<0, GapIndex, 0>>
    /\ m_result = Ok(2)

\* C8: Pairwise-cost metric. For every column and symmetric table,
\* compute_cost_increment returns the sum over the unordered pairs of column
\* positions of T[entry_i][entry_j].
C8_CostIsSumOfPairs ==
    (m_metric.kind = "cost" /\ m_result.tag = "Ok") =>
        m_result.value = PairSum(m_metric.table, m_column, 1, 2)

\* C9: Cost non-negativity. Every cost increment a metric returns for a
\* column is >= 0 (the match metric for a column of its sequence amount), and
\* every node the search holds has cost >= 0.
C9_CostNonNegative ==
    /\ (m_result.tag = "Ok"
           /\ (m_metric.kind = "match" => Len(m_column) = m_metric.sequence_amount))
          => m_result.value >= 0
    /\ \A node \in open_list \cup closed_list : node.cost >= 0

\* C10 as stated: for sequences all equal to s, the match-metric cost is 0 and
\* the CIGAR string is the decimal |s| followed by M, for every |s| >= 0.
C10_IdenticalSequences ==
    (pc = "done" /\ metric.kind = "match" /\ AllEqual(sequences)) =>
        /\ cost = 0
        /\ cigar = ToDecimal(Len(sequences[1])) \o <<"M">>

\* C10 as amended: for sequences all equal to s, the match-metric cost is 0;
\* the CIGAR string is the decimal |s| followed by M when |s| >= 1, and the
\* empty string when |s| = 0.
C10_IdenticalSequencesNonEmpty ==
    (pc = "done" /\ metric.kind = "match" /\ AllEqual(sequences)) =>
        /\ cost = 0
        /\ Len(sequences[1]) >= 1 => cigar = ToDecimal(Len(sequences[1])) \o <<"M">>
        /\ Len(sequences[1]) = 0 => cigar = <<>>

C10_Witness ==
    /\ pc = "done" /\ metric.kind = "match" /\ AllEqual(sequences)
    /\ Len(sequences[1]) = 2
    /\ cigar = <<"2", "M">>

\* C11 as stated: Determinism whatever the order of the pops. The cost and the
\* CIGAR string a run logs are those of the run that pops in the fixed order,
\* so any two runs on the same input log the same.
C11_SameAsFixedOrder ==
    pc = "done" => (cost = FixedOrderRun.cost /\ cigar = FixedOrderCigar)

\* C11 as amended: whatever the order of the pops, the cost is the same, and
\* the CIGAR string is that of an alignment of least cost; which of them
\* depends on the order.
C11_SameCostOptimalCigar ==
    pc = "done" =>
        /\ cost = FixedOrderRun.cost
        /\ cigar \in OptimalCigars(sequences, metric)

C11_Witness ==
    /\ pc = "done"
    /\ cost = FixedOrderRun.cost
    /\ cigar # FixedOrderCigar
    /\ FixedOrderCigar \in OptimalCigars(sequences, metric)

\* C12: Column classification. Of the columns backtrack_cigar has taken, those
\* whose K entries are all the same, and only those, are counted into Match
\* elements; the others are the Mismatch elements, in the same order, each
\* listing its K entries in input order with - for a gap.
C12_ColumnClassification ==
    c_pc # "idle" =>
        /\ MatchAmount(c_cigar)
             = Cardinality({position \in 1 .. c_index : Uniform(TakenColumns[position])})
        /\ [position \in 1 .. Len(SelectSeq(c_cigar, IsMismatch)) |->
               MismatchText(SelectSeq(c_cigar, IsMismatch)[position])]
             = SelectSeq(TakenColumns, NotUniform)

C12_Witness ==
    /\ c_pc = "returned"
    /\ MatchAmount(c_cigar) >= 1
    /\ \E position \in 1 .. Len(c_cigar) :
           /\ c_cigar[position].type = "Mismatch"
           /\ c_cigar[position].column = <<None, Some("C")>>
    /\ \E position \in 1 .. Len(c_cigar) :
           /\ c_cigar[position].type = "Mismatch"
           /\ c_cigar[position].column = <<Some("A"), Some("C")>>

\* C13: CIGAR ordering and run-length collapse. The string backtrack_cigar
\* returns for edges given target first is the columns in root-to-target
\* order, every maximal run of n uniform columns as the one element nM, every
\* other column once at its place.
C13_OrderAndRunLength ==
    c_pc = "returned" =>
        /\ c_index = Len(c_edges)
        /\ c_string = RenderColumns(Reverse(TakenColumns), 1)

C13_Witness ==
    /\ c_pc = "returned"
    /\ c_string = <<"[", "C", "-", "]", "2", "M">>

\* C14: End-to-end single indel. For "ACGT" and "AGT" under the match metric
\* the call logs cost 1 and the CIGAR string 1M[C-]2M, whatever the order of
\* the pops.
C14_SingleIndel ==
    (pc = "done" /\ sequences = ExampleSequences /\ metric.kind = "match") =>
        /\ cost = 1
        /\ cigar = <<"1", "M", "[", "C", "-", "]", "2", "M">>

C14_Witness ==
    /\ pc = "done" /\ sequences = ExampleSequences /\ metric.kind = "match"
    /\ cost = 1
    /\ cigar = <<"1", "M", "[", "C", "-", "]", "2", "M">>
    /\ Cardinality(closed_list) >= 4

\* C15: Duplicate-id reporting. What list_duplicates returns for the sorted
\* ids is strictly increasing (each id once, in sorted order) and holds
\* exactly the ids that occur more than once; the run ends in an error without
\* calling the alignment if and only if that list is not empty.
C15_DuplicateReporting ==
    /\ l_pc \in {"listed", "returned"} /\ Len(record_ids) >= 2 =>
          /\ \A position \in 1 .. Len(duplicate_ids) - 1 :
                 duplicate_ids[position] < duplicate_ids[position + 1]
          /\ {duplicate_ids[position] : position \in DOMAIN duplicate_ids}
               = {id \in IdValues :
                     Cardinality({position \in DOMAIN record_ids :
                                     record_ids[position] = id}) >= 2}
    /\ l_pc = "returned" /\ Len(record_ids) >= 2 =>
          /\ l_result = "Err" <=> duplicate_ids # <<>>
          /\ l_result = "Aligning" <=> duplicate_ids = <<>>

C15_Witness ==
    /\ l_pc = "returned"
    /\ record_ids = <<1, 1, 1, 3>>
    /\ duplicate_ids = <<1>>
    /\ l_result = "Err"

\* C16: No degenerate successors. A bitmask whose selected sequences are all
\* exhausted at the node gives no successor, so no node of the search has its
\* own identifier as its predecessor: every edge advances an offset.
C16_NoDegenerateSuccessors ==
    \A node \in open_list \cup closed_list :
        node.predecessor # None => node.identifier # Unwrap(node.predecessor)

\* C17: Edge well-formedness. Every node generated as a successor has as its
\* predecessor the identifier of the node that was expanded, each of its
\* offsets is the predecessor's or one more, and its cost is the expanded
\* node's cost plus what the metric charges for the column of that edge alone
\* (the sequence's character at the predecessor's offset where the offset
\* advanced, a gap elsewhere), whatever successors were generated before it.
C17_EdgeWellFormed ==
    \A node \in open_list \cup closed_list :
        node.predecessor # None =>
            LET from == Unwrap(node.predecessor)
            IN  /\ IsClosed(closed_list, from)
                /\ \A index \in 1 .. Len(sequences) :
                       node.identifier[index] \in {from[index], from[index] + 1}
                /\ node.cost = ClosedNode(closed_list, from).cost
                                 + ColumnCost(metric,
                                       KindColumn(sequences, from, node.identifier))

\* A successor of the last bitmask of the root of "A", "C" with a positive
\* cost is in the open list, beside successors of the bitmasks before it.
C17_Witness ==
    /\ sequences = <<<<0>>, <<1>>>>
    /\ \E node \in open_list :
           /\ node.identifier = <<1, 1>>
           /\ node.predecessor = Some(<<0, 0>>)
           /\ node.cost > 0
    /\ \E node \in open_list :
           /\ node.identifier = <<1, 0>>
           /\ node.predecessor = Some(<<0, 0>>)
           /\ node.cost > 0

\* C18: Offset bound. Every identifier reached from the root by generating
\* successors, in any order and any number of times, has each offset between
\* 0 and the length of its sequence; the nodes of the search are among them,
\* so the assertion of is_target holds for every node, and where an edge
\* advanced an offset the character read is inside the sequence.
C18_OffsetBound ==
    pc # "start" =>
        LET reachable == ReachableFrom(sequences, {IdentifierCreateRoot(Len(sequences))})
        IN  /\ \A identifier \in reachable : \A index \in 1 .. Len(sequences) :
                   0 <= identifier[index] /\ identifier[index] <= Len(sequences[index])
            /\ \A node \in open_list \cup closed_list :
                   /\ node.identifier \in reachable
                   /\ node.predecessor # None =>
                          \A index \in 1 .. Len(sequences) :
                              node.identifier[index] # Unwrap(node.predecessor)[index] =>
                                  Unwrap(node.predecessor)[index] < Len(sequences[index])

\* A node whose first sequence is exhausted and whose second is not has been
\* expanded, and its successor that advanced the second sequence is open.
C18_Witness ==
    /\ Len(sequences) = 2
    /\ Len(sequences[1]) >= 1
    /\ \E node \in closed_list :
           /\ node.identifier[1] = Len(sequences[1])
           /\ node.identifier[2] < Len(sequences[2])
           /\ \E successor \in open_list :
                  /\ successor.predecessor = Some(node.identifier)
                  /\ successor.identifier[1] = Len(sequences[1])
                  /\ successor.identifier[2] = node.identifier[2] + 1

\* The sequences (1-based) a bitmask selects: the set whose powers of two add
\* up to the bitmask.
MaskMembers(gaps, amount) ==
    CHOOSE members \in SUBSET (1 .. amount) :
        SeqSum([index \in 1 .. amount |->
                   IF index \in members THEN 2 ^ (index - 1) ELSE 0]) = gaps

\* The sequences that give a character for bitmask `gaps` at `identifier`.
Effective(seqs, identifier, gaps) ==
    {index \in MaskMembers(gaps, Len(seqs)) : identifier[index] < Len(seqs[index])}

\* C19: Successor construction per bitmask. When a node is expanded, for each
\* bitmask the inner loop counts sequence i's character at the node's offset
\* and increments offset i exactly for the selected sequences that have a
\* character left, and counts a gap and leaves the offset for every other
\* sequence; the successors added to the open list are the nodes so built.
C19_PerBitmask ==
    [][\A node \in closed_list' \ closed_list :
         LET K == Len(sequences)
             to(gaps) == Advance(node.identifier,
                                 Effective(sequences, node.identifier, gaps))
             column(gaps) == KindColumn(sequences, node.identifier, to(gaps))
         IN  /\ \A gaps \in 1 .. 2 ^ K - 1 :
                    SuccessorLoop(sequences, gaps, 1,
                        [identifier |-> node.identifier, counts |-> ZeroCounts])
                      = [identifier |-> to(gaps), counts |-> KindCounts(column(gaps))]
             /\ open_list' = (open_list \ {node}) \cup
                    {Node(node.cost + ColumnCost(metric, column(gaps)), to(gaps),
                          Some(node.identifier)) : gaps \in 1 .. 2 ^ K - 1}
      ]_vars

\* Of three sequences of one character a node with the first exhausted has
\* been expanded; its successor that advanced the second alone is open.
C19_Witness ==
    /\ Len(sequences) = 3
    /\ \A index \in 1 .. 3 : Len(sequences[index]) = 1
    /\ \E node \in closed_list :
           /\ node.identifier = <<1, 0, 0>>
           /\ \E successor \in open_list :
                  /\ successor.predecessor = Some(node.identifier)
                  /\ successor.identifier = <<1, 1, 0>>

\* The sum of the per-kind counts: the character slots and the gap slot.
CountSum(counts) == SeqSum([position \in 1 .. GapIndex + 1 |-> counts[position - 1]])

\* C20: Metric count invariant. For every expanded node and every bitmask,
\* the counts compute_cost_increment is called with sum to K, whatever counts
\* the successor before left in the metric; under the match metric and the
\* cost metric.
C20_CountsSumToK ==
    \A node \in closed_list : \A gaps \in 1 .. 2 ^ Len(sequences) - 1 :
        LET before == IF gaps = 1 THEN ZeroCounts
                      ELSE GenerateSuccessor(sequences, metric, node, gaps - 1,
                                             ZeroCounts).counts
            successor == GenerateSuccessor(sequences, metric, node, gaps, before)
        IN  /\ CountSum(before) \in {0, Len(sequences)}
            /\ CountSum(successor.counts) = Len(sequences)

\* Under the cost metric the root of "A", "C", "A" has been expanded: its
\* successor of bitmask 3, a column of two characters and a gap, is open.
C20_Witness ==
    /\ metric.kind = "cost"
    /\ sequences = <<<<0>>, <<1>>, <<0>>>>
    /\ \E node \in closed_list :
           /\ node.identifier = <<0, 0, 0>>
           /\ \E successor \in open_list :
                  /\ successor.predecessor = Some(node.identifier)
                  /\ successor.identifier = <<1, 1, 0>>
                  /\ CountSum(KindCounts(KindColumn(sequences, node.identifier,
                                                    successor.identifier))) = 3

\* Exact arithmetic on costs >= 0, capped one above the 16-bit range: the
\* exact value when it fits, TooBig otherwise.
TooBig == I16Max + 1
CappedProduct(multiplicity, base_cost) ==
    IF base_cost > I16Max \div multiplicity THEN TooBig ELSE multiplicity * base_cost
CappedAdd(left, right) == IF left + right > I16Max THEN TooBig ELSE left + right

\* The exact sum of count * count * cell over the pairs of kinds in `pairs`.
RECURSIVE CappedPairSum(_, _, _)
CappedPairSum(table, counts, pairs) ==
    IF pairs = {} THEN 0
    ELSE LET pair == CHOOSE member \in pairs : TRUE
         IN  CappedAdd(CappedProduct(counts[pair[1]] * counts[pair[2]],
                                     Unwrap(table[pair[1]][pair[2]])),
                       CappedPairSum(table, counts, pairs \ {pair}))

\* The exact increment of the pairwise-cost metric for a column.
ExactIncrement(table, column) ==
    LET counts == KindCounts(column)
    IN  CappedPairSum(table, counts,
            {pair \in Kinds \X Kinds :
                pair[2] <= pair[1] /\ counts[pair[1]] > 0 /\ counts[pair[2]] > 0})

\* The exact cost of the successor of `node` for bitmask `gaps`.
ExactSuccessorCost(seqs, table, node, gaps) ==
    LET to == Advance(node.identifier, Effective(seqs, node.identifier, gaps))
    IN  CappedAdd(node.cost, ExactIncrement(table, KindColumn(seqs, node.identifier, to)))

\* C21: Checked cost arithmetic. Every node of the search carries the exact
\* sum of the increments of its path, and a run in which an addition or a
\* multiplication does not fit the cost width has aborted: while the run goes
\* on, every successor of every expanded node has an exact cost inside the 16
\* bits, and a run aborts only where one has not.
C21_CheckedArithmetic ==
    /\ \A node \in open_list \cup closed_list :
           /\ 0 <= node.cost
           /\ node.predecessor # None =>
                  LET from == ClosedNode(closed_list, Unwrap(node.predecessor))
                  IN  node.cost = CappedAdd(from.cost,
                                      ExactIncrement(metric.table,
                                          KindColumn(sequences, from.identifier,
                                                     node.identifier)))
    /\ \A node \in closed_list : \A gaps \in 1 .. 2 ^ Len(sequences) - 1 :
           ExactSuccessorCost(sequences, metric.table, node, gaps) <= I16Max
    /\ outcome = "Panic" =>
           \E node \in open_list : \E gaps \in 1 .. 2 ^ Len(sequences) - 1 :
               ExactSuccessorCost(sequences, metric.table, node, gaps) = TooBig

\* The pairs of kinds (k, k') with k' <= k that both occur in the counts.
OccurringPairs(counts) ==
    {pair \in Kinds \X Kinds :
        pair[2] <= pair[1] /\ counts[pair[1]] > 0 /\ counts[pair[2]] > 0}

\* The sum of c_k * c_k' * T[k][k'] over the pairs (k, k') of `pairs`.
RECURSIVE WeightedPairSum(_, _, _)
WeightedPairSum(table, counts, pairs) ==
    IF pairs = {} THEN 0
    ELSE LET pair == CHOOSE member \in pairs : TRUE
         IN  counts[pair[1]] * counts[pair[2]] * Unwrap(table[pair[1]][pair[2]])
               + WeightedPairSum(table, counts, pairs \ {pair})

\* C22: Pairwise-cost accumulator form. compute_cost_increment of the
\* pairwise-cost metric returns the sum of c_k * c_k' * T[k][k'] over the
\* pairs of kinds (k, k'), k' <= k, that both occur in the column, the pair
\* (k, k) with weight c_k * c_k; it fails for a missing cell of such a pair
\* and never for a cell of a kind that does not occur.
C22_AccumulatorForm ==
    (m_metric.kind = "cost" /\ m_result # NotComputed) =>
        LET pairs == OccurringPairs(character_counts)
        IN  IF \E pair \in pairs : m_metric.table[pair[1]][pair[2]] = None
            THEN m_result.tag = "Err"
            ELSE m_result = Ok(WeightedPairSum(m_metric.table, character_counts, pairs))

\* The column (A, A, C) with T[A][A] = 2, T[C][A] = -1, T[C][C] = 0 and the
\* cells of the gap and of G and T missing: 4 * 2 + 2 * (-1) + 1 * 0 = 6.
C22_Witness ==
    /\ m_metric.kind = "cost"
    /\ m_column = <<0, 0, 1>>
    /\ m_metric.table[0][0] = Some(2)
    /\ m_metric.table[1][0] = Some(-1)
    /\ m_metric.table[1][1] = Some(0)
    /\ m_metric.table[GapIndex][0] = None
    /\ m_metric.table[2][0] = None
    /\ m_result = Ok(6)

\* The successor of `node` for bitmask `gaps`, generated with the metric
\* holding the counts of the successor for the bitmask before.
SuccessorAfterPrevious(seqs, m, node, gaps) ==
    GenerateSuccessor(seqs, m, node, gaps,
        IF gaps = 1 THEN ZeroCounts
        ELSE GenerateSuccessor(seqs, m, node, gaps - 1, ZeroCounts).counts)

\* C23: Equal effective sets give equal successors. Whenever a node is
\* expanded, any two bitmasks that select the same sequences among those with
\* a character left give successors with the same identifier and the same
\* cost, whatever the metric holds from the successor generated before.
C23_EqualEffectiveSets ==
    [][\A node \in closed_list' \ closed_list :
         \A first \in 1 .. 2 ^ Len(sequences) - 1 :
             LET effective == Effective(sequences, node.identifier, first)
                 successor == SuccessorAfterPrevious(sequences, metric, node, first)
             IN  /\ successor.tag = "Ok"
                 /\ successor.value \in open_list'
                 /\ \A second \in first + 1 .. 2 ^ Len(sequences) - 1 :
                        Effective(sequences, node.identifier, second) = effective
                        => LET other == SuccessorAfterPrevious(sequences, metric,
                                                               node, second)
                           IN  /\ other.tag = "Ok"
                               /\ other.value.identifier = successor.value.identifier
                               /\ other.value.cost = successor.value.cost
      ]_vars

\* The root of an empty sequence and "AC" has been expanded: the bitmasks 2
\* and 3 both select the second sequence alone, and its successor is open.
C23_Witness ==
    /\ sequences = <<<<>>, <<0, 1>>>>
    /\ Effective(sequences, <<0, 0>>, 2) = {2}
    /\ Effective(sequences, <<0, 0>>, 3) = {2}
    /\ \E node \in closed_list : node.identifier = <<0, 0>>
    /\ \E node \in open_list :
           node.identifier = <<0, 1>> /\ node.predecessor = Some(<<0, 0>>)

====
